---- MODULE Spec2Model ----
(***************************************************************************)
(* Model of the "Agent or Workflow?" quiz (src/app.py) and of its results  *)
(* dashboard (src/visualize.py).                                           *)
(*                                                                         *)
(* One Streamlit session is the st.session_state of one browser tab plus   *)
(* the page the browser currently shows.  The vote buttons of a rendered   *)
(* quiz page carry the closure handle_vote of the script run that rendered *)
(* them: current_q, question_data and already_answered are the values of   *)
(* that run.  Streamlit runs a clicked button's on_click callback first    *)
(* and re-runs the script afterwards; a click that arrives before the      *)
(* re-run has registered the buttons again runs the callback of the        *)
(* rendering the browser still shows.  The callback and the re-run are     *)
(* therefore separate steps.                                               *)
(*                                                                         *)
(* Every vote is saved by a daemon thread (save_vote_threaded) that works  *)
(* on the shared Google sheet through separate network calls; get_stats    *)
(* does the same from the results page.  Each network call is one step.    *)
(* Question numbers are 0-based as in the source; QUIZ_DATA[i + 1] is the  *)
(* 'correct' field of question i.  The Timestamp column is left out: no    *)
(* code reads it back.                                                     *)
(***************************************************************************)
EXTENDS Integers, Sequences, FiniteSets, Bags, TLC

VARIABLES
    quiz_started,      \* st.session_state.quiz_started, per session
    current_question,  \* st.session_state.current_question
    user_answers,      \* st.session_state.user_answers
    quiz_completed,    \* st.session_state.quiz_completed
    session_id,        \* st.session_state.session_id
    page,              \* what the browser of the session shows / where its script run is
    current_q,         \* closure of the rendered vote buttons: current_q
    already_answered,  \* closure of the rendered vote buttons: already_answered
    stats,             \* the list get_stats() returned to the results page
    next_uuid,         \* uuid.uuid4(): the next value it hands out
    threads,           \* bag of running save_vote_threaded threads
    sheet,             \* rows of spreadsheet.sheet1
    records,           \* input of the aggregation functions (SpecStats)
    answers_in,        \* input of the score computation (SpecStats)
    result             \* output of the function applied (SpecStats)

session_vars == <<quiz_started, current_question, user_answers, quiz_completed, session_id>>
view_vars == <<page, current_q, already_answered, stats>>
store_vars == <<threads, sheet>>
fn_vars == <<records, answers_in, result>>
vars == <<session_vars, view_vars, next_uuid, store_vars, fn_vars>>

----------------------------------------------------------------------------
(* Bounds of the model *)

NumSessions == 2   \* browser sessions open at the same time
MaxLive == 2       \* save threads alive at the same time
MaxRows == 3       \* rows the sheet can hold; a call that would exceed it fails
MaxVoteRows == 1   \* vote rows the sheet can hold; an append that would exceed it fails
MaxIds == 3        \* uuid4 values handed out in a run
MaxClicks == 2     \* clicks on the vote buttons of one rendering
MaxAgentVotes == 1 \* "Agent" votes among the answers a session holds
MaxActive == 1     \* sessions between START QUIZ and "Take Quiz Again" at the same time
MaxRecords == 2    \* records in a collection handed to an aggregation (SpecStats)
QSlack == 1        \* how far past the list indices -N .. N-1 a question number goes (SpecStats)

Sessions == 1..NumSessions

----------------------------------------------------------------------------
(* Static data *)

Labels == {"Agent", "Workflow"}

QUIZ_DATA == <<"Workflow", "Agent", "Workflow", "Workflow", "Workflow", "Agent", "Workflow">>

N == Len(QUIZ_DATA)

headers == [kind |-> "headers"]

VoteRow(sid, q, vote, correct) ==
    [kind |-> "vote", session_id |-> sid, question_num |-> q,
     user_vote |-> vote, correct_answer |-> correct]

----------------------------------------------------------------------------
(* gspread worksheet calls *)

\* worksheet.row_values(1): the first row, empty when the sheet has none
row_values_1(ws) == IF ws = <<>> THEN <<>> ELSE <<ws[1]>>

\* worksheet.insert_row(row, 1)
insert_row_1(ws, row) == <<row>> \o ws

\* worksheet.append_row(row)
append_row(ws, row) == Append(ws, row)

\* worksheet.get_all_records(): the rows below the first one
get_all_records(ws) == IF ws = <<>> THEN <<>> ELSE Tail(ws)

\* the vote rows of the sheet, in order
VoteRows(ws) == LET is_vote(row) == row # headers IN SelectSeq(ws, is_vote)

----------------------------------------------------------------------------
(* Session: script runs and widget callbacks *)

AgentVotes(answers) == Cardinality({k \in 1..Len(answers) : answers[k] = "Agent"})

Active == {s \in Sessions : quiz_started[s]}

Init ==
    /\ quiz_started = [s \in Sessions |-> FALSE]
    /\ current_question = [s \in Sessions |-> 0]
    /\ user_answers = [s \in Sessions |-> <<>>]
    /\ quiz_completed = [s \in Sessions |-> FALSE]
    /\ session_id = [s \in Sessions |-> s]
    /\ page = [s \in Sessions |-> "landing"]
    /\ current_q = [s \in Sessions |-> 0]
    /\ already_answered = [s \in Sessions |-> FALSE]
    /\ stats = [s \in Sessions |-> <<>>]
    /\ next_uuid = NumSessions + 1
    /\ threads = EmptyBag
    /\ sheet = <<>>
    /\ records = <<>>
    /\ answers_in = <<>>
    /\ result = [fn |-> "none"]

\* main(), quiz branch: the vote buttons get the closure of this run
RenderQuiz(s, cq, answers) ==
    /\ page' = [page EXCEPT ![s] = "quiz"]
    /\ current_q' = [current_q EXCEPT ![s] = cq]
    /\ already_answered' = [already_answered EXCEPT ![s] = Len(answers) > cq]
    /\ stats' = [stats EXCEPT ![s] = <<>>]

\* START QUIZ pressed on the landing page; st.rerun() renders the quiz page
ClickStart(s) ==
    /\ page[s] = "landing"
    /\ ~quiz_started[s]
    /\ Cardinality(Active) < MaxActive
    /\ quiz_started' = [quiz_started EXCEPT ![s] = TRUE]
    /\ RenderQuiz(s, current_question[s], user_answers[s])
    /\ UNCHANGED <<current_question, user_answers, quiz_completed, session_id,
                   next_uuid, store_vars, fn_vars>>

\* variant: the index is incremented on the last question too
advance_question_past_end(cq) ==
    IF cq < N - 1 THEN [current_question |-> cq + 1, quiz_completed |-> FALSE]
                  ELSE [current_question |-> cq + 1, quiz_completed |-> TRUE]

\* advance_question(): the values of current_question and quiz_completed after it
advance_question(cq) ==
    IF cq < N - 1 THEN [current_question |-> cq + 1, quiz_completed |-> FALSE]
                  ELSE [current_question |-> cq, quiz_completed |-> TRUE]

\* threading.Thread(target=save_vote_threaded, args=...).start()
StartThread(q, vote, correct, sid) ==
    threads (+) SetToBag({[row |-> VoteRow(sid, q, vote, correct), pc |-> "check"]})

\* variant: the callback appends the row itself before it advances
handle_vote_saves_first(s, vote) ==
    /\ page[s] = "quiz"
    /\ ~already_answered[s]
    /\ Len(user_answers[s]) < current_q[s] + MaxClicks
    /\ vote = "Agent" => AgentVotes(user_answers[s]) < MaxAgentVotes
    /\ Len(sheet) < MaxRows
    /\ Len(VoteRows(sheet)) < MaxVoteRows
    /\ LET adv == advance_question(current_question[s]) IN
       /\ user_answers' = [user_answers EXCEPT ![s] = Append(@, vote)]
       /\ sheet' = append_row(sheet, VoteRow(session_id[s], current_q[s], vote,
                                             QUIZ_DATA[current_q[s] + 1]))
       /\ current_question' = [current_question EXCEPT ![s] = adv.current_question]
       /\ quiz_completed' = [quiz_completed EXCEPT ![s] =
                                quiz_completed[s] \/ adv.quiz_completed]
    /\ UNCHANGED <<quiz_started, session_id, view_vars, next_uuid, threads, fn_vars>>

\* handle_vote(vote), the on_click callback of the rendered AGENT / WORKFLOW button
handle_vote(s, vote) ==
    /\ page[s] = "quiz"
    /\ ~already_answered[s]                \* disabled=already_answered
    /\ BagCardinality(threads) < MaxLive
    /\ Len(user_answers[s]) < current_q[s] + MaxClicks
    /\ vote = "Agent" => AgentVotes(user_answers[s]) < MaxAgentVotes
    /\ IF ~already_answered[s]
       THEN LET adv == advance_question(current_question[s]) IN
            /\ user_answers' = [user_answers EXCEPT ![s] = Append(@, vote)]
            /\ threads' = StartThread(current_q[s], vote, QUIZ_DATA[current_q[s] + 1],
                                      session_id[s])
            /\ current_question' = [current_question EXCEPT ![s] = adv.current_question]
            /\ quiz_completed' = [quiz_completed EXCEPT ![s] =
                                     quiz_completed[s] \/ adv.quiz_completed]
       ELSE UNCHANGED <<user_answers, threads, current_question, quiz_completed>>
    /\ UNCHANGED <<quiz_started, session_id, view_vars, next_uuid, sheet, fn_vars>>

\* the script run after a vote: the next question, or show_final_results() up to
\* the first sheet access of get_stats()
Rerun(s) ==
    /\ page[s] = "quiz"
    /\ IF ~quiz_completed[s]
       THEN RenderQuiz(s, current_question[s], user_answers[s])
       ELSE /\ page' = [page EXCEPT ![s] = "ensure_headers"]
            /\ current_q' = [current_q EXCEPT ![s] = 0]
            /\ already_answered' = [already_answered EXCEPT ![s] = FALSE]
            /\ UNCHANGED stats
    /\ UNCHANGED <<session_vars, next_uuid, store_vars, fn_vars>>

\* variant: the reset leaves the session id as it was
Restart_keeps_session_id(s) ==
    /\ page[s] = "results"
    /\ next_uuid <= MaxIds
    /\ quiz_started' = [quiz_started EXCEPT ![s] = FALSE]
    /\ current_question' = [current_question EXCEPT ![s] = 0]
    /\ user_answers' = [user_answers EXCEPT ![s] = <<>>]
    /\ quiz_completed' = [quiz_completed EXCEPT ![s] = FALSE]
    /\ page' = [page EXCEPT ![s] = "landing"]
    /\ stats' = [stats EXCEPT ![s] = <<>>]
    /\ UNCHANGED <<session_id, next_uuid, current_q, already_answered, store_vars, fn_vars>>

\* "Take Quiz Again" pressed on the results page; st.rerun() renders the landing page
Restart(s) ==
    /\ page[s] = "results"
    /\ next_uuid <= MaxIds
    /\ quiz_started' = [quiz_started EXCEPT ![s] = FALSE]
    /\ current_question' = [current_question EXCEPT ![s] = 0]
    /\ user_answers' = [user_answers EXCEPT ![s] = <<>>]
    /\ quiz_completed' = [quiz_completed EXCEPT ![s] = FALSE]
    /\ session_id' = [session_id EXCEPT ![s] = next_uuid]
    /\ next_uuid' = next_uuid + 1
    /\ page' = [page EXCEPT ![s] = "landing"]
    /\ stats' = [stats EXCEPT ![s] = <<>>]
    /\ UNCHANGED <<current_q, already_answered, store_vars, fn_vars>>

----------------------------------------------------------------------------
(* get_stats(), called by show_final_results() *)

\* the dict get_stats builds from one record of get_all_records()
StatRecord(row) ==
    [session_id |-> row.session_id, question_num |-> row.question_num,
     user_vote |-> row.user_vote, correct_answer |-> row.correct_answer]

\* the list comprehension of get_stats: int(record['Question Number']) raises on
\* a row that repeats the header, and the except branch returns []
ConvertRecords(data) ==
    IF \E i \in 1..Len(data) : data[i] = headers
    THEN <<>>
    ELSE [i \in 1..Len(data) |-> StatRecord(data[i])]

\* ensure_headers: existing = worksheet.row_values(1); if existing != headers
EnsureHeadersCheck(s) ==
    /\ page[s] = "ensure_headers"
    /\ page' = [page EXCEPT ![s] = IF row_values_1(sheet) # <<headers>>
                                   THEN "insert_headers" ELSE "get_all_records"]
    /\ UNCHANGED <<session_vars, current_q, already_answered, stats, next_uuid,
                   store_vars, fn_vars>>

\* ensure_headers: worksheet.insert_row(headers, 1)
EnsureHeadersInsert(s) ==
    /\ page[s] = "insert_headers"
    /\ Len(sheet) < MaxRows
    /\ sheet' = insert_row_1(sheet, headers)
    /\ page' = [page EXCEPT ![s] = "get_all_records"]
    /\ UNCHANGED <<session_vars, current_q, already_answered, stats, next_uuid,
                   threads, fn_vars>>

\* data = worksheet.get_all_records() and the conversion; the results page is shown
GetAllRecords(s) ==
    /\ page[s] = "get_all_records"
    /\ stats' = [stats EXCEPT ![s] = ConvertRecords(get_all_records(sheet))]
    /\ page' = [page EXCEPT ![s] = "results"]
    /\ UNCHANGED <<session_vars, current_q, already_answered, next_uuid,
                   store_vars, fn_vars>>

\* a call of get_stats raises: st.error(...) and return []
GetStatsFail(s) ==
    /\ page[s] \in {"ensure_headers", "insert_headers", "get_all_records"}
    /\ stats' = [stats EXCEPT ![s] = <<>>]
    /\ page' = [page EXCEPT ![s] = "results"]
    /\ UNCHANGED <<session_vars, current_q, already_answered, next_uuid,
                   store_vars, fn_vars>>

----------------------------------------------------------------------------
(* save_vote_threaded, one step per network call *)

Moved(t, pc) == (threads (-) SetToBag({t})) (+) SetToBag({[t EXCEPT !.pc = pc]})

\* credentials, gspread.authorize, gc.open_by_key, spreadsheet.sheet1 and
\* if not worksheet.row_values(1): the calls before it touch nothing shared
ThreadCheck(t) ==
    /\ t.pc = "check"
    /\ threads' = Moved(t, IF row_values_1(sheet) = <<>> THEN "insert" ELSE "append")
    /\ UNCHANGED <<session_vars, view_vars, next_uuid, sheet, fn_vars>>

\* worksheet.insert_row([...five column names...], 1)
ThreadInsert(t) ==
    /\ t.pc = "insert"
    /\ Len(sheet) < MaxRows
    /\ sheet' = insert_row_1(sheet, headers)
    /\ threads' = Moved(t, "append")
    /\ UNCHANGED <<session_vars, view_vars, next_uuid, fn_vars>>

\* worksheet.append_row(new_data); the thread ends
ThreadAppend(t) ==
    /\ t.pc = "append"
    /\ Len(sheet) < MaxRows
    /\ Len(VoteRows(sheet)) < MaxVoteRows
    /\ sheet' = append_row(sheet, t.row)
    /\ threads' = threads (-) SetToBag({t})
    /\ UNCHANGED <<session_vars, view_vars, next_uuid, fn_vars>>

\* variant: a failed save starts over
ThreadFail_retries(t) ==
    /\ threads' = Moved(t, "check")
    /\ UNCHANGED <<session_vars, view_vars, next_uuid, sheet, fn_vars>>

\* any call raises: except Exception prints the error; the thread ends
ThreadFail(t) ==
    /\ threads' = threads (-) SetToBag({t})
    /\ UNCHANGED <<session_vars, view_vars, next_uuid, sheet, fn_vars>>

----------------------------------------------------------------------------

Next ==
    \/ \E s \in Sessions : ClickStart(s)
    \/ \E s \in Sessions, vote \in Labels : handle_vote(s, vote)
    \/ \E s \in Sessions : Rerun(s)
    \/ \E s \in Sessions : Restart(s)
    \/ \E s \in Sessions : EnsureHeadersCheck(s)
    \/ \E s \in Sessions : EnsureHeadersInsert(s)
    \/ \E s \in Sessions : GetAllRecords(s)
    \/ \E s \in Sessions : GetStatsFail(s)
    \/ \E t \in BagToSet(threads) : ThreadCheck(t)
    \/ \E t \in BagToSet(threads) : ThreadInsert(t)
    \/ \E t \in BagToSet(threads) : ThreadAppend(t)
    \/ \E t \in BagToSet(threads) : ThreadFail(t)

Spec == Init /\ [][Next]_vars

----------------------------------------------------------------------------
(* The computations of the results page and of the dashboard, applied to    *)
(* arbitrary answers and vote records.  A percentage is kept as the exact   *)
(* fraction num / den that the float expression denotes.  A list            *)
(* comprehension [v for v in l if p(v)] is SelectSeq(l, p).                 *)

Min(a, b) == IF a < b THEN a ELSE b

Pct(n, d) == [num |-> n, den |-> d]

\* show_final_results: for i in range(min_len): if user_answer == QUIZ_DATA[i]['correct']
RECURSIVE CorrectCountFrom(_, _, _)
CorrectCountFrom(answers, i, min_len) ==
    IF i >= min_len THEN 0
    ELSE (IF answers[i + 1] = QUIZ_DATA[i + 1] THEN 1 ELSE 0)
         + CorrectCountFrom(answers, i + 1, min_len)

\* variant: the loop stops one answer early
correct_count_stops_early(answers) == CorrectCountFrom(answers, 0, Min(Len(answers), N) - 1)

\* show_final_results: correct_count, with min_len = min(len(user_answers), len(QUIZ_DATA))
correct_count(answers) == CorrectCountFrom(answers, 0, Min(Len(answers), N))

\* show_final_results: score_pct = (correct_count / len(QUIZ_DATA)) * 100
score_pct(answers) == Pct(correct_count(answers) * 100, N)

\* variant: the percentage is computed without the total_votes > 0 test
question_stats_unguarded(st, i) ==
    LET is_i(v) == v.question_num = i
        is_agent(v) == v.user_vote = "Agent"
        question_votes == IF st # <<>> THEN SelectSeq(st, is_i) ELSE <<>>
        total_votes == Len(question_votes)
        agent_votes == Len(SelectSeq(question_votes, is_agent))
    IN  [total_votes |-> total_votes, agent_votes |-> agent_votes,
         agent_pct |-> Pct(agent_votes * 100, total_votes),
         workflow_pct |-> Pct(100 * total_votes - agent_votes * 100, total_votes)]

\* show_final_results: the community stats of question i
question_stats(st, i) ==
    LET is_i(v) == v.question_num = i
        is_agent(v) == v.user_vote = "Agent"
        question_votes == IF st # <<>> THEN SelectSeq(st, is_i) ELSE <<>>
        total_votes == Len(question_votes)
    IN  IF total_votes > 0
        THEN LET agent_votes == Len(SelectSeq(question_votes, is_agent)) IN
             [total_votes |-> total_votes, agent_votes |-> agent_votes,
              agent_pct |-> Pct(agent_votes * 100, total_votes),
              workflow_pct |-> Pct(100 * total_votes - agent_votes * 100, total_votes)]
        ELSE [total_votes |-> total_votes,
              agent_pct |-> Pct(0, 1), workflow_pct |-> Pct(0, 1)]

\* QUIZ_DATA[k] of Python for an integer k: negative k counts from the end,
\* anything outside -N .. N-1 raises IndexError
PyIndexOk(k) == 0 - N <= k /\ k <= N - 1
PyIndex(k) == IF k >= 0 THEN QUIZ_DATA[k + 1] ELSE QUIZ_DATA[N + k + 1]

\* visualize.py: df['Is Correct'] (row-wise), then
\* df.groupby('Question Title')['Is Correct'].mean() * 100.  QUESTION_TITLES maps
\* the numbers 0 .. N-1 to distinct titles and every other number to NaN, and
\* groupby leaves the NaN rows out.  An empty frame stops the script before.
agreement_rate(df) ==
    IF df = <<>> THEN [status |-> "stopped", rate |-> <<>>]
    ELSE IF \E r \in 1..Len(df) : ~PyIndexOk(df[r].question_num)
    THEN [status |-> "IndexError", rate |-> <<>>]
    ELSE LET is_correct(row) == row.user_vote = PyIndex(row.question_num)
             titled == {df[r].question_num : r \in 1..Len(df)} \cap (0..(N - 1))
             group(q) == LET is_q(row) == row.question_num = q IN SelectSeq(df, is_q)
         IN  [status |-> "ok",
              rate |-> [q \in titled |->
                          Pct(Len(SelectSeq(group(q), is_correct)) * 100, Len(group(q)))]]

QNums == (0 - N - QSlack)..(N - 1 + QSlack)

VoteRecords ==
    [session_id : {1}, question_num : QNums, user_vote : Labels, correct_answer : Labels]

SeqsUpTo(S, n) == UNION {[1..k -> S] : k \in 0..n}

InitStats ==
    /\ quiz_started = [s \in Sessions |-> FALSE]
    /\ current_question = [s \in Sessions |-> 0]
    /\ user_answers = [s \in Sessions |-> <<>>]
    /\ quiz_completed = [s \in Sessions |-> FALSE]
    /\ session_id = [s \in Sessions |-> s]
    /\ page = [s \in Sessions |-> "landing"]
    /\ current_q = [s \in Sessions |-> 0]
    /\ already_answered = [s \in Sessions |-> FALSE]
    /\ stats = [s \in Sessions |-> <<>>]
    /\ next_uuid = NumSessions + 1
    /\ threads = EmptyBag
    /\ sheet = <<>>
    /\ result = [fn |-> "none"]
    /\ \/ answers_in \in SeqsUpTo(Labels, N + 1) /\ records = <<>>
       \/ answers_in = <<>> /\ records \in SeqsUpTo(VoteRecords, MaxRecords)

\* the score line of the results page for the answers given
ComputeScore ==
    /\ result.fn = "none"
    /\ result' = [fn |-> "score", correct_count |-> correct_count(answers_in),
                  score_pct |-> score_pct(answers_in)]
    /\ UNCHANGED <<session_vars, view_vars, next_uuid, store_vars, records, answers_in>>

\* the community stats of every question for the records given
ComputeQuestionStats ==
    /\ result.fn = "none"
    /\ result' = [fn |-> "question_stats",
                  of |-> [i \in 0..(N - 1) |-> question_stats(records, i)]]
    /\ UNCHANGED <<session_vars, view_vars, next_uuid, store_vars, records, answers_in>>

\* the dashboard's agreement chart for the records given
ComputeAgreementRate ==
    /\ result.fn = "none"
    /\ result' = [fn |-> "agreement_rate", of |-> agreement_rate(records)]
    /\ UNCHANGED <<session_vars, view_vars, next_uuid, store_vars, records, answers_in>>

NextStats ==
    \/ ComputeScore
    \/ ComputeQuestionStats
    \/ ComputeAgreementRate

SpecStats == InitStats /\ [][NextStats]_vars

----------------------------------------------------------------------------
(* Phases of a session *)

NotStarted(s) == ~quiz_started[s]
InProgress(s) == quiz_started[s] /\ ~quiz_completed[s]
Completed(s) == quiz_started[s] /\ quiz_completed[s]

SessionState(s) ==
    <<quiz_started[s], current_question[s], user_answers[s], quiz_completed[s], session_id[s]>>

\* an answer has been accepted from the rendering the browser of s still shows
AnsweredFromRendering(s) == page[s] = "quiz" /\ Len(user_answers[s]) > current_q[s]

----------------------------------------------------------------------------
(* C1 *)

\* C1 as stated: while a session is InProgress the number of recorded answers
\* equals current_question, and current_question equals N exactly when the
\* session is Completed.
C1_IndexReachesN ==
    \A s \in Sessions :
        /\ InProgress(s) => Len(user_answers[s]) = current_question[s]
        /\ current_question[s] = N <=> Completed(s)

\* C1 amended: while a session is InProgress the number of recorded answers
\* equals current_question; current_question stays within 0 .. N-1, and it is
\* N-1 whenever the session is Completed.
C1_IndexStaysBelowN ==
    \A s \in Sessions :
        /\ InProgress(s) => Len(user_answers[s]) = current_question[s]
        /\ current_question[s] \in 0..(N - 1)
        /\ Completed(s) => current_question[s] = N - 1

C1_Witness ==
    \E s \in Sessions :
        Completed(s) /\ current_question[s] = N - 1 /\ Len(user_answers[s]) = N

----------------------------------------------------------------------------
(* C2 *)

\* C2: a vote callback invoked from a rendering from which an answer was already
\* accepted is rejected: the session state is unchanged and no save thread starts.
C2_SecondClickRejected ==
    [][\A s \in Sessions, vote \in Labels :
          (AnsweredFromRendering(s) /\ handle_vote(s, vote))
              => (SessionState(s)' = SessionState(s) /\ threads' = threads)]_vars

----------------------------------------------------------------------------
(* C3 *)

\* a save thread ended without writing a row: its append failed
ThreadEndedWithoutRow ==
    /\ BagCardinality(threads') < BagCardinality(threads)
    /\ sheet' = sheet

\* C3: a step in which a save thread ends in failure changes nothing of any
\* session (answers, index, flags, id, page), and no thread is started again:
\* a thread at its first step appears only together with a newly accepted answer.
C3_FailureStaysInThread ==
    [][/\ ThreadEndedWithoutRow =>
            /\ UNCHANGED <<session_vars, view_vars, next_uuid>>
            /\ threads' \sqsubseteq threads
       /\ user_answers' = user_answers =>
            \A t \in BagToSet(threads') :
                t.pc = "check" => CopiesIn(t, threads') <= CopiesIn(t, threads)]_vars

\* an answer was accepted and the session moved on, while its save thread is
\* gone and the sheet has no row at all
C3_Witness ==
    \E s \in Sessions :
        /\ Len(user_answers[s]) = 1 /\ current_question[s] = 1 /\ InProgress(s)
        /\ threads = EmptyBag
        /\ sheet = <<>>

----------------------------------------------------------------------------
(* C4 *)

\* C4: the sheet holds the header row exactly once, as its first row.
C4_HeaderExactlyOnce ==
    sheet # <<>> =>
        /\ sheet[1] = headers
        /\ \A i \in 2..Len(sheet) : sheet[i] # headers

----------------------------------------------------------------------------
(* C5 *)

\* every value uuid4 has handed out so far, to any session
IssuedIds == 1..(next_uuid - 1)

\* C5: a step that takes a started session back to NotStarted leaves it with
\* current_question 0, no answers, quiz_completed false and a session id that
\* no session has had before.
C5_RestartResets ==
    [][\A s \in Sessions :
          (quiz_started[s] /\ ~quiz_started'[s]) =>
              /\ current_question'[s] = 0
              /\ user_answers'[s] = <<>>
              /\ ~quiz_completed'[s]
              /\ session_id'[s] \notin IssuedIds]_vars

C5_Witness ==
    \E s \in Sessions :
        /\ NotStarted(s) /\ session_id[s] > NumSessions
        /\ current_question[s] = 0 /\ user_answers[s] = <<>> /\ ~quiz_completed[s]

----------------------------------------------------------------------------
(* C6 *)

\* C6: the step that accepts an answer of a session also moves the session to
\* the next question or to Completed and starts the save thread, which has not
\* touched the sheet yet.
C6_AdvanceWithoutWaiting ==
    [][\A s \in Sessions :
          Len(user_answers'[s]) > Len(user_answers[s]) =>
              /\ \/ current_question'[s] = current_question[s] + 1
                 \/ quiz_completed'[s]
              /\ sheet' = sheet
              /\ \E t \in BagToSet(threads') :
                    /\ t.pc = "check"
                    /\ threads' = threads (+) SetToBag({t})]_vars

\* a session has completed the quiz while the save of its first answer is pending
C6_Witness ==
    \E s \in Sessions :
        /\ Completed(s)
        /\ \E t \in BagToSet(threads) :
              /\ t.row.session_id = session_id[s]
              /\ t.row.question_num = 0
              /\ t.pc = "check"

----------------------------------------------------------------------------
(* C7 *)

\* C7: a session changes state only by start (NotStarted to InProgress(0)), by
\* an accepted answer (InProgress(i) to InProgress(i+1), or to Completed when
\* i+1 = N) and by restart (to NotStarted); a Completed session changes only by
\* restart.
C7_OnlyTheseTransitions ==
    [][\A s \in Sessions :
          SessionState(s)' # SessionState(s) =>
              \/ /\ NotStarted(s)
                 /\ InProgress(s)' /\ current_question'[s] = 0
              \/ /\ InProgress(s)
                 /\ Len(user_answers'[s]) = Len(user_answers[s]) + 1
                 /\ IF current_question[s] + 1 < N
                    THEN InProgress(s)' /\ current_question'[s] = current_question[s] + 1
                    ELSE Completed(s)'
              \/ NotStarted(s)']_vars

----------------------------------------------------------------------------
(* C8 *)

\* the answers that equal the correct label of the question at their index
Matches(answers) ==
    {k \in 0..(Len(answers) - 1) : k < N /\ answers[k + 1] = QUIZ_DATA[k + 1]}

\* C8: the score is the number of indices k < len(answers) whose answer is the
\* correct label of question k, and score_pct is 100 * score / N.
C8_Score ==
    result.fn = "score" =>
        /\ result.correct_count = Cardinality(Matches(answers_in))
        /\ result.score_pct.den # 0
        /\ result.score_pct.num * N = 100 * Cardinality(Matches(answers_in)) * result.score_pct.den

C8_Witness ==
    /\ result.fn = "score"
    /\ answers_in = <<"Workflow", "Workflow">>
    /\ result.correct_count = 1

----------------------------------------------------------------------------
(* C9 *)

VotesFor(i) == {r \in 1..Len(records) : records[r].question_num = i}
AgentVotesFor(i) == {r \in VotesFor(i) : records[r].user_vote = "Agent"}

\* C9: for every question, total_votes is the number of records of the question,
\* agent_votes the number of those voting Agent, agent_pct is
\* 100 * agent_votes / total_votes, and with no votes nothing is divided by zero.
C9_QuestionStats ==
    result.fn = "question_stats" =>
        \A i \in 0..(N - 1) :
            LET st == result.of[i]
                total == Cardinality(VotesFor(i))
                agent == Cardinality(AgentVotesFor(i))
            IN  /\ st.total_votes = total
                /\ st.agent_pct.den # 0
                /\ total > 0 =>
                       /\ st.agent_votes = agent
                       /\ 0 <= st.agent_votes /\ st.agent_votes <= st.total_votes
                       /\ st.agent_pct.num * total = 100 * agent * st.agent_pct.den
                /\ total = 0 => st.agent_pct.num = 0

C9_Witness ==
    /\ result.fn = "question_stats"
    /\ Len(records) = 2
    /\ records[1].question_num = 0 /\ records[1].user_vote = "Agent"
    /\ records[2].question_num = 0 /\ records[2].user_vote = "Workflow"
    /\ result.of[0].total_votes = 2 /\ result.of[0].agent_votes = 1
    /\ result.of[0].agent_pct.num = 50 * result.of[0].agent_pct.den
    /\ result.of[1].total_votes = 0

----------------------------------------------------------------------------
(* C10 *)

OutOfRange == {r \in 1..Len(records) : records[r].question_num \notin 0..(N - 1)}

\* C10: the agreement rate of a collection that holds a record with a question
\* number outside 0 .. N-1 is computed without failure, and that record is under
\* no question of the result.
C10_OutOfRangeTolerated ==
    (result.fn = "agreement_rate" /\ OutOfRange # {}) =>
        /\ result.of.status = "ok"
        /\ DOMAIN result.of.rate \subseteq 0..(N - 1)


----------------------------------------------------------------------------
(* C11 *)

\* the records of question q, and those among them whose vote equals the
\* correct label stored in the record itself
RecordsOf(q) == {r \in 1..Len(records) : records[r].question_num = q}
AgreeingWithOwnLabel(q) ==
    {r \in RecordsOf(q) : records[r].user_vote = records[r].correct_answer}

\* C11: the agreement rate of a question is the percentage of its records whose
\* vote equals the correct label stored in the record, whatever the question
\* definitions say now.
C11_RateUsesRecordLabel ==
    (result.fn = "agreement_rate" /\ result.of.status = "ok") =>
        \A q \in DOMAIN result.of.rate :
            /\ result.of.rate[q].den # 0
            /\ result.of.rate[q].num * Cardinality(RecordsOf(q))
                  = 100 * Cardinality(AgreeingWithOwnLabel(q)) * result.of.rate[q].den


----------------------------------------------------------------------------
(* C12 *)

\* the save threads started in this step: the records handed to the sheet
Handed == {t \in BagToSet(threads') :
              t.pc = "check" /\ CopiesIn(t, threads') > CopiesIn(t, threads)}

\* C12: every record handed to a save thread has a question number in 0 .. N-1,
\* a vote that is a label, the correct label of that question and the session id
\* of the session that accepted the answer, and its vote is the entry of that
\* session's answers at the index of its question number.
C12_RecordMatchesSession ==
    [][\A t \in Handed :
          \E s \in Sessions :
              /\ Len(user_answers'[s]) > Len(user_answers[s])
              /\ t.row.session_id = session_id[s]
              /\ t.row.question_num \in 0..(N - 1)
              /\ t.row.user_vote \in Labels
              /\ t.row.correct_answer = QUIZ_DATA[t.row.question_num + 1]
              /\ Len(user_answers'[s]) > t.row.question_num
              /\ user_answers'[s][t.row.question_num + 1] = t.row.user_vote]_vars


----------------------------------------------------------------------------
(* C13 *)

\* the records get_stats has to return for the sheet: one per vote row
StoredRecords(ws) == [i \in 1..Len(VoteRows(ws)) |-> StatRecord(VoteRows(ws)[i])]

\* C13: the vote rows of the sheet are never changed or removed (the vote rows
\* before a step are the first vote rows after it), and a get_stats whose sheet
\* calls all succeed returns the record of every vote row of the sheet.
C13_AppendOnlyAndReadable ==
    [][/\ \A i \in 1..Len(VoteRows(sheet)) :
             /\ i <= Len(VoteRows(sheet'))
             /\ VoteRows(sheet')[i] = VoteRows(sheet)[i]
       /\ \A s \in Sessions :
             GetAllRecords(s) => stats'[s] = StoredRecords(sheet)]_vars

====
